---- MODULE Spec2Model ----
(***************************************************************************)
(* Model of scripts/ingest_locomo.py: the LoCoMo ingestion driver (main,   *)
(* ingest_sample) and its pure helpers (sample_id_to_uuid,                 *)
(* normalize_locomo_date, pair_turns).                                     *)
(*                                                                         *)
(* Representation of Python values:                                        *)
(*   - a text built by an f-string is the sequence of its pieces, so       *)
(*     f"{a}: {b}" is <<a, ": ", b>> and a literal "x" is <<"x">>;         *)
(*   - a dict key such as "session_10_date_time" is the sequence of its    *)
(*     parts between underscores, k.split("_"), each part a sequence of    *)
(*     pieces: << <<"session">>, <<"1","0">>, <<"date">>, <<"time">> >>;   *)
(*   - a dict is the sequence of its entries in insertion order;           *)
(*   - None is a flag next to the value (args.samples).                    *)
(***************************************************************************)
EXTENDS Integers, Sequences, FiniteSets, TLC

VARIABLES
    data_exists,    \* whether Path(args.data).exists()
    corpus,         \* json.load(open(data_path)): the samples of the file
    args,           \* argparse result: samples (None or int), delay
    pc,             \* position of main
    samples,        \* main's samples list, after the --samples slice
    i,              \* index of the sample main's loop is at (0-based)
    session_keys,   \* ingest_sample's sorted session keys of sample i
    sk_pos,         \* number of session keys of sample i already posted
    total_turns,    \* ingest_sample's running total
    grand_total,    \* main's running total
    client,         \* TRUE once httpx.Client() was constructed
    requests,       \* payloads handed to client.post, in order
    responses,      \* the outcome of each of those posts
    events,         \* "post" and "sleep" calls, in order
    stdout,         \* printed lines
    turns_in,       \* argument of a direct pair_turns call
    pairs_out,      \* its result
    ppc             \* position of that call

vars == <<data_exists, corpus, args, pc, samples, i, session_keys, sk_pos,
          total_turns, grand_total, client, requests, responses, events,
          stdout, turns_in, pairs_out, ppc>>

driver_vars == <<data_exists, corpus, args, pc, samples, i, session_keys,
                 sk_pos, total_turns, grand_total, client, requests,
                 responses, events, stdout>>

pair_vars == <<turns_in, pairs_out, ppc>>

\* ---------------------------------------------------------------- bounds

MaxTurns == 4       \* longest turn list handed to pair_turns directly
MaxKeys == 6        \* most keys in the conversation of a single-sample corpus
MaxSamples == 3     \* most samples in a corpus

\* ------------------------------------------------------- sample_id_to_uuid

\* uuid.uuid5(namespace, name) is a hash; it is kept symbolic: the pair of
\* its two arguments.
sample_id_to_uuid(sample_id) ==
    [namespace |-> "NAMESPACE_DNS", name |-> <<"locomo.", sample_id>>]

\* ------------------------------------------------------------- pair_turns

NoResponse == <<"(no response)">>

\* f"{turn['speaker']}: {turn['text']}"
format_turn(turn) == <<turn.speaker, ": ", turn.text>>

\* The while loop of pair_turns; n is the 0-based i of the code.
RECURSIVE pair_loop(_, _, _)
pair_loop(turns, n, pairs) ==
    IF n < Len(turns) - 1
    THEN pair_loop(turns, n + 2,
                   Append(pairs, [user |-> format_turn(turns[n + 1]),
                                  assistant |-> format_turn(turns[n + 2])]))
    ELSE [n |-> n, pairs |-> pairs]

\* Mutant: the scan advances by one, so a turn answers and then asks again.
RECURSIVE pair_loop_overlap(_, _, _)
pair_loop_overlap(turns, n, pairs) ==
    IF n < Len(turns) - 1
    THEN pair_loop_overlap(turns, n + 1,
                   Append(pairs, [user |-> format_turn(turns[n + 1]),
                                  assistant |-> format_turn(turns[n + 2])]))
    ELSE [n |-> n, pairs |-> pairs]

pair_turns_overlap(turns) ==
    LET r == pair_loop_overlap(turns, 0, <<>>)
    IN  IF r.n < Len(turns)
        THEN Append(r.pairs, [user |-> format_turn(turns[r.n + 1]),
                              assistant |-> NoResponse])
        ELSE r.pairs

\* Mutant: the trailing unpaired turn is paired with itself.
pair_turns_echo(turns) ==
    LET r == pair_loop(turns, 0, <<>>)
    IN  IF r.n < Len(turns)
        THEN Append(r.pairs, [user |-> format_turn(turns[r.n + 1]),
                              assistant |-> format_turn(turns[r.n + 1])])
        ELSE r.pairs

pair_turns(turns) ==
    LET r == pair_loop(turns, 0, <<>>)
    IN  IF r.n < Len(turns)
        THEN Append(r.pairs, [user |-> format_turn(turns[r.n + 1]),
                              assistant |-> NoResponse])
        ELSE r.pairs

\* ------------------------------------------------------------ int(), dates

Digits == <<"0", "1", "2", "3", "4", "5", "6", "7", "8", "9">>

is_digit(c) == \E d \in 1..Len(Digits) : Digits[d] = c

digit_value(c) == (CHOOSE d \in 1..Len(Digits) : Digits[d] = c) - 1

\* int(s) of a non-empty string of decimal digits, s given by its characters.
RECURSIVE int_of(_)
int_of(s) ==
    IF Len(s) = 0 THEN 0
    ELSE 10 * int_of(SubSeq(s, 1, Len(s) - 1)) + digit_value(s[Len(s)])

is_numeral(s) == Len(s) > 0 /\ \A j \in 1..Len(s) : is_digit(s[j])

\* The date labels of the modelled corpora.
LabelMay == "1:56 pm on 8 May, 2023"
LabelPlain == "1 May, 2023"
LabelJune31 == "9:00 am on 31 June, 2023"
UnknownDate == "unknown date"

\* re.match(r"\d{1,2}:\d{2}\s*(?:am|pm)\s+on\s+(\d{1,2})\s+(\w+),?\s+(\d{4})", ...)
\* on the labels above: whether it matches, and groups 1..3.
regex_match(date_str) ==
    CASE date_str = LabelMay ->
           [matched |-> TRUE, day |-> <<"8">>, month |-> "May",
            year |-> <<"2", "0", "2", "3">>]
      [] date_str = LabelJune31 ->
           [matched |-> TRUE, day |-> <<"3", "1">>, month |-> "June",
            year |-> <<"2", "0", "2", "3">>]
      [] OTHER ->
           [matched |-> FALSE, day |-> <<>>, month |-> "", year |-> <<>>]

MonthNames == <<"January", "February", "March", "April", "May", "June", "July",
                "August", "September", "October", "November", "December">>

\* %B: the month's number, 0 when the word is no month name.
month_number(name) ==
    IF \E m \in 1..12 : MonthNames[m] = name
    THEN CHOOSE m \in 1..12 : MonthNames[m] = name
    ELSE 0

is_leap(y) == (y % 4 = 0 /\ y % 100 # 0) \/ y % 400 = 0

days_in_month(m, y) ==
    IF m = 2 THEN (IF is_leap(y) THEN 29 ELSE 28)
    ELSE IF m \in {4, 6, 9, 11} THEN 30 ELSE 31

\* Whether datetime.strptime(f"{day} {month_name} {year}", "%d %B %Y") returns.
strptime_ok(g) ==
    /\ month_number(g.month) # 0
    /\ int_of(g.day) >= 1
    /\ int_of(g.day) <= days_in_month(month_number(g.month), int_of(g.year))
    /\ int_of(g.year) >= 1

pad2(n) == <<Digits[(n \div 10) + 1], Digits[(n % 10) + 1]>>

\* dt.strftime("%Y-%m-%d")
strftime_iso(g) ==
    g.year \o <<"-">> \o pad2(month_number(g.month)) \o <<"-">> \o pad2(int_of(g.day))

normalize_locomo_date(date_str) ==
    LET g == regex_match(date_str)
    IN  IF ~g.matched THEN <<date_str>>
        ELSE IF strptime_ok(g) THEN strftime_iso(g)
        ELSE <<date_str>>

\* --------------------------------------------------- conversation and keys

DateTimeSuffix == << <<"date">>, <<"time">> >>

\* k.startswith("session_")
starts_with_session(k) == Len(k) >= 2 /\ k[1] = <<"session">>

\* "date_time" in k (a piece is not looked into)
contains_date_time(k) ==
    \E j \in 1..(Len(k) - 1) :
        /\ Len(k[j]) > 0 /\ k[j][Len(k[j])] = "date"
        /\ Len(k[j + 1]) > 0 /\ k[j + 1][1] = "time"

is_session_key(k) == starts_with_session(k) /\ ~contains_date_time(k)

\* Mutant: the keys are compared as text, so only the leading digit counts
\* between "10" and "2".
session_sort_key_lexical(k) == digit_value(k[2][1])

\* key=lambda x: int(x.split("_")[1])
session_sort_key(k) == int_of(k[2])

\* sorted(..., key=...) is stable: k goes after every element whose key is
\* not greater.
RECURSIVE insert_by_key(_, _)
insert_by_key(s, k) ==
    IF Len(s) = 0 THEN <<k>>
    ELSE IF session_sort_key(s[Len(s)]) <= session_sort_key(k)
         THEN Append(s, k)
         ELSE Append(insert_by_key(SubSeq(s, 1, Len(s) - 1), k), s[Len(s)])

RECURSIVE sorted_keys(_)
sorted_keys(s) ==
    IF Len(s) = 0 THEN <<>>
    ELSE insert_by_key(sorted_keys(SubSeq(s, 1, Len(s) - 1)), s[Len(s)])

RECURSIVE filter_session_keys(_)
filter_session_keys(conv) ==
    IF Len(conv) = 0 THEN <<>>
    ELSE LET rest == filter_session_keys(SubSeq(conv, 1, Len(conv) - 1))
             k == conv[Len(conv)].key
         IN  IF is_session_key(k) THEN Append(rest, k) ELSE rest

\* sample.get("conversation", {})
sample_conversation(sample) ==
    IF sample.has_conversation THEN sample.conversation ELSE <<>>

\* session_keys = sorted([k for k in conv if ...], key=...)
compute_session_keys(conv) == sorted_keys(filter_session_keys(conv))

has_key(conv, k) == \E j \in 1..Len(conv) : conv[j].key = k

entry_of(conv, k) == conv[CHOOSE j \in 1..Len(conv) : conv[j].key = k]

\* conv.get(f"{sk}_date_time", "unknown date")
session_date_str(conv, sk) ==
    IF has_key(conv, sk \o DateTimeSuffix)
    THEN entry_of(conv, sk \o DateTimeSuffix).text
    ELSE UnknownDate

\* ------------------------------------------------------------- the payload

Acknowledged == <<"(acknowledged)">>

date_header_turn(date_str) ==
    [user |-> <<"[Conversation date: ", date_str, "]">>,
     assistant |-> Acknowledged]

\* Mutant: the header is added after the paired turns.
session_pairs_header_last(date_str, turns) ==
    pair_turns(turns) \o <<date_header_turn(date_str)>>

\* pairs = [date_header_turn] + pair_turns(turns)
session_pairs(date_str, turns) ==
    <<date_header_turn(date_str)>> \o pair_turns(turns)

\* Mutant: the session number is left out of the conversation id.
conversation_id_no_session(sample_id, sk) == <<sample_id, "_session_">>

\* f"{sample_id}_session_{session_num}", session_num = sk.split("_")[1]
conversation_id(sample_id, sk) == <<sample_id, "_session_">> \o sk[2]

build_payload(sample, sk) ==
    LET conv == sample_conversation(sample)
        date_str == session_date_str(conv, sk)
    IN  [agent_id |-> sample_id_to_uuid(sample.sample_id),
         conversation_id |-> conversation_id(sample.sample_id, sk),
         turns |-> session_pairs(date_str, entry_of(conv, sk).turns),
         session_date |-> normalize_locomo_date(date_str)]

\* ------------------------------------------------------------------ inputs

Turn(speaker, text) == [speaker |-> speaker, text |-> text]

TurnValues == {Turn(sp, tx) : sp \in {"A", "B"}, tx \in {"hi", "hello", "bye"}}

TurnLists == UNION {[1..n -> TurnValues] : n \in 0..MaxTurns}

session_key(num) == << <<"session">>, num >>

SessionEntry(num, turns) ==
    [key |-> session_key(num), turns |-> turns, text |-> ""]

DateEntry(num, label) ==
    [key |-> session_key(num) \o DateTimeSuffix, turns |-> <<>>, text |-> label]

SpeakerEntry == [key |-> << <<"speaker">>, <<"a">> >>, turns |-> <<>>, text |-> "A"]

Session1 == SessionEntry(<<"1">>, <<Turn("A", "hi"), Turn("B", "hello"), Turn("A", "bye")>>)
Session2 == SessionEntry(<<"2">>, <<>>)
Session10 == SessionEntry(<<"1", "0">>, <<Turn("B", "hi"), Turn("A", "hello")>>)
Date1 == DateEntry(<<"1">>, LabelMay)
Date2 == DateEntry(<<"2">>, LabelPlain)
Date10 == DateEntry(<<"1", "0">>, LabelJune31)

EntryPool == {Session1, Session2, Session10, Date1, Date2, Date10, SpeakerEntry}

\* A JSON object holds each key once.
Conversations ==
    {c \in UNION {[1..n -> EntryPool] : n \in 0..MaxKeys} :
        \A a, b \in 1..Len(c) : a # b => c[a].key # c[b].key}

\* The sample ids of locomo10.json.
SampleIds == <<"conv-26", "conv-30", "conv-41", "conv-42", "conv-43",
               "conv-44", "conv-47", "conv-48", "conv-49", "conv-50">>

Sample(sample_id, has_conversation, conversation) ==
    [sample_id |-> sample_id, has_conversation |-> has_conversation,
     conversation |-> conversation]

\* The conversations of the samples of a corpus of several samples.
Shapes ==
    {[has_conversation |-> FALSE, conversation |-> <<>>],
     [has_conversation |-> TRUE, conversation |-> <<Session1>>],
     [has_conversation |-> TRUE, conversation |-> <<Session2, Session1, Date1>>]}

corpus_of(f) ==
    [p \in 1..Len(f) |-> Sample(SampleIds[p], f[p].has_conversation, f[p].conversation)]

Corpora == {corpus_of(f) : f \in UNION {[1..n -> Shapes] : n \in 0..MaxSamples}}

SingleSampleCorpora ==
    {<<Sample(SampleIds[1], TRUE, c)>> : c \in Conversations}

\* --samples: None by default, else an int.
NoSamplesArg == [given |-> FALSE, value |-> 0]

SamplesArgs == {NoSamplesArg} \cup {[given |-> TRUE, value |-> v] : v \in -1..(MaxSamples + 1)}

\* --delay
Delays == {0, 1}

\* ------------------------------------------------------------------- main

Line(kind, n, table) == [kind |-> kind, n |-> n, table |-> table]

\* The lines "  {sid} -> {aid}" of a mapping table.
mapping_table(ss) ==
    [p \in 1..Len(ss) |-> <<ss[p].sample_id, sample_id_to_uuid(ss[p].sample_id)>>]

\* seq[:n]
slice_to(seq, n) ==
    IF n >= 0
    THEN SubSeq(seq, 1, IF n < Len(seq) THEN n ELSE Len(seq))
    ELSE SubSeq(seq, 1, IF Len(seq) + n > 0 THEN Len(seq) + n ELSE 0)

\* `if args.samples:` None and 0 are both falsy.
samples_arg_truthy(a) == a.given /\ a.value # 0

limit_samples(all, a) ==
    IF samples_arg_truthy(a) THEN slice_to(all, a.value) ELSE all

\* Mutant: the existence check is dropped.
data_missing_unchecked(exists) == FALSE

\* `if not data_path.exists():`
data_missing(exists) == ~exists

\* Mutant: the status is not looked at.
raise_for_status_ignored(status) == FALSE

\* resp.raise_for_status() raises unless the status is a success.
raise_for_status(status) == ~(200 <= status /\ status < 300)

\* result.get("turns_ingested", 0)
turns_ingested(resp) == IF resp.has_count THEN resp.count ELSE 0

TransportError == [kind |-> "transport_error", status |-> 0, has_count |-> FALSE, count |-> 0]

HttpResponse(status, has_count, count) ==
    [kind |-> "http", status |-> status, has_count |-> has_count, count |-> count]

\* What a post of payload can end in.
Outcomes(payload) ==
    {TransportError, HttpResponse(500, FALSE, 0), HttpResponse(200, FALSE, 0),
     HttpResponse(200, TRUE, Len(payload.turns))}

post_fails(resp) == resp.kind = "transport_error" \/ raise_for_status(resp.status)

\* main, lines 138-141: the data file is missing.
MissingData ==
    /\ pc = "start"
    /\ data_missing(data_exists)
    /\ stdout' = Append(stdout, Line("error_not_found", 0, <<>>))
    /\ pc' = "returned"
    /\ UNCHANGED <<data_exists, corpus, args, samples, i, session_keys, sk_pos,
                   total_turns, grand_total, client, requests, responses, events>>
    /\ UNCHANGED pair_vars

\* main, lines 143-159: load, slice, print the mapping table, build the client.
LoadSamples ==
    /\ pc = "start"
    /\ ~data_missing(data_exists)
    /\ LET ss == limit_samples(corpus, args.samples)
       IN  /\ samples' = ss
           /\ stdout' = stdout \o <<Line("ingesting", Len(ss), <<>>),
                                    Line("agent_id_mapping", 0, mapping_table(ss))>>
    /\ client' = TRUE
    /\ grand_total' = 0
    /\ i' = 0
    /\ pc' = "loop"
    /\ UNCHANGED <<data_exists, corpus, args, session_keys, sk_pos, total_turns,
                   requests, responses, events>>
    /\ UNCHANGED pair_vars

\* main, lines 161-166, and ingest_sample, lines 72-81.
BeginSample ==
    /\ pc = "loop"
    /\ i < Len(samples)
    /\ stdout' = Append(stdout, Line("sample", i + 1,
                                     mapping_table(<<samples[i + 1]>>)))
    /\ session_keys' = compute_session_keys(sample_conversation(samples[i + 1]))
    /\ total_turns' = 0
    /\ sk_pos' = 0
    /\ pc' = "sessions"
    /\ UNCHANGED <<data_exists, corpus, args, samples, i, grand_total, client,
                   requests, responses, events>>
    /\ UNCHANGED pair_vars

\* ingest_sample, lines 83-107: one pass of the loop over session_keys.
PostSession ==
    /\ pc = "sessions"
    /\ sk_pos < Len(session_keys)
    /\ LET payload == build_payload(samples[i + 1], session_keys[sk_pos + 1])
       IN  \E resp \in Outcomes(payload) :
             /\ requests' = Append(requests, payload)
             /\ responses' = Append(responses, resp)
             /\ events' = Append(events, "post")
             /\ IF post_fails(resp)
                THEN /\ pc' = "crashed"
                     /\ UNCHANGED <<total_turns, sk_pos, stdout>>
                ELSE /\ total_turns' = total_turns + turns_ingested(resp)
                     /\ stdout' = Append(stdout,
                                         Line("session", turns_ingested(resp), <<>>))
                     /\ sk_pos' = sk_pos + 1
                     /\ pc' = "sessions"
    /\ UNCHANGED <<data_exists, corpus, args, samples, i, session_keys,
                   grand_total, client>>
    /\ UNCHANGED pair_vars

\* ingest_sample, line 109, and main, lines 167-171.
EndSample ==
    /\ pc = "sessions"
    /\ sk_pos = Len(session_keys)
    /\ grand_total' = grand_total + total_turns
    /\ stdout' = Append(stdout, Line("total", total_turns, <<>>))
    /\ events' = IF args.delay > 0 THEN Append(events, "sleep") ELSE events
    /\ i' = i + 1
    /\ pc' = "loop"
    /\ UNCHANGED <<data_exists, corpus, args, samples, session_keys, sk_pos,
                   total_turns, client, requests, responses>>
    /\ UNCHANGED pair_vars

\* main, lines 173-179.
Finish ==
    /\ pc = "loop"
    /\ i = Len(samples)
    /\ stdout' = stdout \o <<Line("done", grand_total, <<>>),
                             Line("agent_ids", 0, mapping_table(samples))>>
    /\ pc' = "done"
    /\ UNCHANGED <<data_exists, corpus, args, samples, i, session_keys, sk_pos,
                   total_turns, grand_total, client, requests, responses, events>>
    /\ UNCHANGED pair_vars

\* A direct call of pair_turns.
CallPairTurns ==
    /\ ppc = "call"
    /\ pairs_out' = pair_turns(turns_in)
    /\ ppc' = "returned"
    /\ UNCHANGED <<turns_in>>
    /\ UNCHANGED driver_vars

InitRun ==
    /\ data_exists \in BOOLEAN
    /\ pc = "start"
    /\ samples = <<>>
    /\ i = 0
    /\ session_keys = <<>>
    /\ sk_pos = 0
    /\ total_turns = 0
    /\ grand_total = 0
    /\ client = FALSE
    /\ requests = <<>>
    /\ responses = <<>>
    /\ events = <<>>
    /\ stdout = <<>>
    /\ turns_in = <<>>
    /\ pairs_out = <<>>
    /\ ppc = "idle"

\* A run of main on a corpus of several samples.
Init ==
    /\ corpus \in Corpora
    /\ args \in [samples : SamplesArgs, delay : Delays]
    /\ InitRun

\* A run of main on a corpus of one sample, over every layout of its
\* conversation.
InitSingle ==
    /\ corpus \in SingleSampleCorpora
    /\ args \in [samples : {NoSamplesArg}, delay : Delays]
    /\ InitRun

\* A run of main without --samples, or with a cap one below the longest
\* corpus.
InitFair ==
    /\ corpus \in Corpora
    /\ args \in [samples : {NoSamplesArg, [given |-> TRUE, value |-> MaxSamples - 1]},
                 delay : Delays]
    /\ InitRun

\* pair_turns alone, over every turn list.
InitPair ==
    /\ turns_in \in TurnLists
    /\ pairs_out = <<>>
    /\ ppc = "call"
    /\ data_exists = FALSE
    /\ corpus = <<>>
    /\ args = [samples |-> NoSamplesArg, delay |-> 0]
    /\ pc = "idle"
    /\ samples = <<>>
    /\ i = 0
    /\ session_keys = <<>>
    /\ sk_pos = 0
    /\ total_turns = 0
    /\ grand_total = 0
    /\ client = FALSE
    /\ requests = <<>>
    /\ responses = <<>>
    /\ events = <<>>
    /\ stdout = <<>>

Next ==
    \/ MissingData
    \/ LoadSamples
    \/ BeginSample
    \/ PostSession
    \/ EndSample
    \/ Finish

NextPair == CallPairTurns

Spec == Init /\ [][Next]_vars

SingleSpec == InitSingle /\ [][Next]_vars

PairSpec == InitPair /\ [][NextPair]_vars

\* main runs to its end: no step of it waits on anything but its own calls.
FairSpec == InitFair /\ [][Next]_vars /\ WF_vars(Next)

\* ------------------------------------------------------------- properties

\* The text fields of the records in output order, user then assistant, the
\* "(no response)" placeholder skipped.
RECURSIVE read_back(_)
read_back(pairs) ==
    IF Len(pairs) = 0 THEN <<>>
    ELSE LET last == pairs[Len(pairs)]
             rest == read_back(SubSeq(pairs, 1, Len(pairs) - 1))
         IN  IF last.assistant = <<"(no response)">>
             THEN Append(rest, last.user)
             ELSE rest \o <<last.user, last.assistant>>

Formatted(turn) == <<turn.speaker, ": ", turn.text>>

\* C1: pair_turns on n turns returns ceil(n/2) records; record j has user =
\* turn 2j-1 and, when there is a turn 2j, assistant = turn 2j (counting from
\* 1); read in output order the records give back every turn once, in order.
C1_PairingCoverage ==
    ppc = "returned" =>
        LET n == Len(turns_in)
        IN  /\ Len(pairs_out) = (n + 1) \div 2
            /\ \A j \in 1..Len(pairs_out) :
                 /\ pairs_out[j].user = Formatted(turns_in[2 * j - 1])
                 /\ 2 * j <= n => pairs_out[j].assistant = Formatted(turns_in[2 * j])
            /\ read_back(pairs_out) = [j \in 1..n |-> Formatted(turns_in[j])]

C1_Witness ==
    /\ ppc = "returned"
    /\ turns_in = <<Turn("A", "hi"), Turn("B", "hello"), Turn("A", "bye"), Turn("B", "bye")>>
    /\ Len(pairs_out) = 2

\* C2: for n odd the last record is the last turn with the assistant
\* "(no response)"; for n even no assistant is the placeholder, each is the
\* turn that follows the record's user turn.
C2_OddPlaceholder ==
    ppc = "returned" =>
        LET n == Len(turns_in)
        IN  IF n % 2 = 1
            THEN /\ Len(pairs_out) >= 1
                 /\ pairs_out[Len(pairs_out)].user = Formatted(turns_in[n])
                 /\ pairs_out[Len(pairs_out)].assistant = <<"(no response)">>
            ELSE \A j \in 1..Len(pairs_out) :
                    /\ pairs_out[j].assistant # <<"(no response)">>
                    /\ pairs_out[j].assistant = Formatted(turns_in[2 * j])

C2_Witness ==
    /\ ppc = "returned"
    /\ turns_in = <<Turn("A", "bye")>>
    /\ pairs_out = <<[user |-> <<"A", ": ", "bye">>, assistant |-> <<"(no response)">>]>>

\* A key of the form session_<N>, N a decimal numeral.
PatternSessionKey(k) == Len(k) = 2 /\ k[1] = <<"session">> /\ is_numeral(k[2])

\* ingest_sample has computed the session keys of the (single) sample.
SampleBegun == pc \in {"sessions", "crashed"} \/ (pc \in {"loop", "done"} /\ i > 0)

\* C3: the sessions processed are exactly the session_<N> keys of the
\* conversation, in strictly ascending numeric order of N, whatever the
\* order of the keys in the file; the requests go out in that order.
C3_SessionOrder ==
    SampleBegun =>
        LET conv == corpus[1].conversation
        IN  /\ {session_keys[j] : j \in 1..Len(session_keys)}
                 = {conv[j].key : j \in {m \in 1..Len(conv) : PatternSessionKey(conv[m].key)}}
            /\ \A a, b \in 1..Len(session_keys) :
                 a < b => int_of(session_keys[a][2]) < int_of(session_keys[b][2])
            /\ Len(requests) <= Len(session_keys)
            /\ \A j \in 1..Len(requests) :
                 requests[j].conversation_id
                    = <<corpus[1].sample_id, "_session_">> \o session_keys[j][2]

C3_Witness ==
    /\ pc = "done"
    /\ corpus[1].conversation = <<Session2, Date2, Session10, Date10, Session1, Date1>>
    /\ session_keys = <<session_key(<<"1">>), session_key(<<"2">>), session_key(<<"1", "0">>)>>
    /\ Len(requests) = 3

\* The date label of the session with key k in conv: the text under
\* k + "_date_time", "unknown date" without that key.
LabelOf(conv, k) ==
    IF \E j \in 1..Len(conv) : conv[j].key = k \o << <<"date">>, <<"time">> >>
    THEN conv[CHOOSE j \in 1..Len(conv) : conv[j].key = k \o << <<"date">>, <<"time">> >>].text
    ELSE "unknown date"

\* C4: the turns of every request start with the one header record, user
\* "[Conversation date: <raw label>]" and assistant "(acknowledged)", the
\* label "unknown date" when the session has no date key; pair_turns of the
\* session's turns follows.
C4_HeaderFirst ==
    \A j \in 1..Len(requests) :
        LET conv == corpus[1].conversation
            r == requests[j]
        IN  \E m \in 1..Len(conv) :
              /\ PatternSessionKey(conv[m].key)
              /\ r.conversation_id = <<corpus[1].sample_id, "_session_">> \o conv[m].key[2]
              /\ Len(r.turns) >= 1
              /\ r.turns[1] = [user |-> <<"[Conversation date: ", LabelOf(conv, conv[m].key), "]">>,
                               assistant |-> <<"(acknowledged)">>]
              /\ Tail(r.turns) = pair_turns(conv[m].turns)
              /\ \A t \in 2..Len(r.turns) : r.turns[t].assistant # <<"(acknowledged)">>

C4_Witness ==
    /\ pc = "done"
    /\ corpus[1].conversation = <<Session10, Session2, Date1, Session1>>
    /\ Len(requests) = 3
    /\ requests[1].turns[1].user = <<"[Conversation date: ", LabelMay, "]">>
    /\ requests[1].session_date = <<"2", "0", "2", "3", "-", "0", "5", "-", "0", "8">>
    /\ requests[2].turns = <<[user |-> <<"[Conversation date: ", "unknown date", "]">>,
                              assistant |-> <<"(acknowledged)">>]>>

\* A post that ended in a transport failure or a non-success status.
FailedPost(resp) == resp.kind = "transport_error" \/ resp.status < 200 \/ resp.status > 299

HasLine(kind) == \E j \in 1..Len(stdout) : stdout[j].kind = kind

\* C5: a failed request is the last one of the run, and the run has stopped
\* without the "Done" summary; nothing happens after the failure and no
\* request already sent is taken back.
C5_FailureIsFatal ==
    /\ [](\A j \in 1..Len(responses) :
            FailedPost(responses[j]) =>
                /\ j = Len(requests)
                /\ pc = "crashed"
                /\ ~HasLine("done"))
    /\ [][/\ pc # "crashed"
          /\ Len(requests') >= Len(requests)
          /\ SubSeq(requests', 1, Len(requests)) = requests]_vars

C5_Witness ==
    /\ pc = "crashed"
    /\ Len(requests) = 2
    /\ responses[2].status = 500
    /\ Len(session_keys) = 2
    /\ sk_pos = 0
    /\ i = 1
    /\ Len(samples) = 3

\* C6: with a delay > 0, a sleep lies between any two consecutive requests.
C6_DelayBetweenSessions ==
    args.delay > 0 =>
        \A j \in 1..(Len(events) - 1) : ~(events[j] = "post" /\ events[j + 1] = "post")

Loaded == pc \notin {"start", "returned", "idle"}

\* C7: with a cap N >= 0 the samples processed are the first min(N, S) of the
\* corpus; without a cap all of them.
C7_SampleCap ==
    Loaded =>
        IF args.samples.given
        THEN args.samples.value >= 0 =>
               samples = SubSeq(corpus, 1, IF args.samples.value < Len(corpus)
                                           THEN args.samples.value ELSE Len(corpus))
        ELSE samples = corpus

\* C8: with the data file missing the run reports it and returns; no client
\* is built, nothing is posted.
C8_MissingFileNoNetwork ==
    ~data_exists =>
        /\ client = FALSE
        /\ requests = <<>>
        /\ events = <<>>
        /\ pc \in {"start", "returned"}
        /\ pc = "returned" => stdout = <<[kind |-> "error_not_found", n |-> 0, table |-> <<>>]>>

C8_Witness ==
    /\ ~data_exists
    /\ pc = "returned"
    /\ Len(corpus) = 2
    /\ corpus[1].conversation = <<Session1>>

\* The sessions of a sample: the numerals N of its session_<N> keys.
SessionNumerals(sample) ==
    IF sample.has_conversation
    THEN {sample.conversation[m].key[2] :
            m \in {q \in 1..Len(sample.conversation) :
                     PatternSessionKey(sample.conversation[q].key)}}
    ELSE {}

\* The position in samples of the sample a request was sent for.
SampleOf(r) == CHOOSE p \in 1..Len(samples) : samples[p].sample_id = r.conversation_id[1]

NumeralOf(r) == SubSeq(r.conversation_id, 3, Len(r.conversation_id))

\* On the end of a run: one request for each session of each processed
\* sample and no other, sample after sample in corpus order, the sessions of
\* a sample by ascending index, conversation ids "<sample_id>_session_<N>".
C10_AtDone ==
    pc = "done" =>
        /\ HasLine("done")
        /\ \A j \in 1..Len(requests) :
             /\ requests[j].conversation_id[2] = "_session_"
             /\ \E p \in 1..Len(samples) :
                  /\ samples[p].sample_id = requests[j].conversation_id[1]
                  /\ NumeralOf(requests[j]) \in SessionNumerals(samples[p])
        /\ \A p \in 1..Len(samples) : \A num \in SessionNumerals(samples[p]) :
             Cardinality({j \in 1..Len(requests) :
                            requests[j].conversation_id
                               = <<samples[p].sample_id, "_session_">> \o num}) = 1
        /\ \A j, k \in 1..Len(requests) :
             j < k =>
               /\ SampleOf(requests[j]) <= SampleOf(requests[k])
               /\ SampleOf(requests[j]) = SampleOf(requests[k]) =>
                    /\ int_of(NumeralOf(requests[j])) < int_of(NumeralOf(requests[k]))
                    /\ requests[j].conversation_id # requests[k].conversation_id

\* C10: a run in which every request succeeds ends with the summary, its
\* requests as C10_AtDone says.
C10_SuccessfulRun ==
    /\ []C10_AtDone
    /\ ([](pc \notin {"crashed", "returned"}) => <>(pc = "done"))

C10_Witness ==
    /\ pc = "done"
    /\ Len(samples) = 3
    /\ Len(requests) = 5
    /\ samples[1].conversation = <<Session2, Session1, Date1>>
    /\ samples[3].conversation = <<Session2, Session1, Date1>>

====
